---- MODULE Spec2Model ----
(***************************************************************************)
(* Model of rasa-project/actions/actions.py: the period resolver           *)
(* (filter_period, parse_last_period), the series slicer (slice_series),   *)
(* and the two request handlers ActionQueryKPI.run / ActionForecastKPI.run.*)
(*                                                                         *)
(* Python strings are sequences of one-character strings, so that          *)
(* lower(), strip(), split(), startswith(), int() and the f-string         *)
(* formatting are computed rather than assumed.                            *)
(***************************************************************************)
EXTENDS Integers, Sequences, FiniteSets, TLC

(***************************************************************************)
(* Bounds of the model.                                                    *)
(***************************************************************************)
\* longest monthly history placed in the data store
MaxLen == 8

(***************************************************************************)
(* Character-level string primitives (Python str methods).                 *)
(***************************************************************************)
\* the absent slot value (Python None); differs from every character string
None == <<"<None>">>

UpperAZ == <<"A","B","C","D","E","F","G","H","I","J","K","L","M",
             "N","O","P","Q","R","S","T","U","V","W","X","Y","Z">>

LowerAZ == <<"a","b","c","d","e","f","g","h","i","j","k","l","m",
             "n","o","p","q","r","s","t","u","v","w","x","y","z">>

Digits == <<"0","1","2","3","4","5","6","7","8","9">>

IsDigit(c) == \E i \in 1..10 : Digits[i] = c

DigitVal(c) == (CHOOSE i \in 1..10 : Digits[i] = c) - 1

IsSpace(c) == c \in {" ", "\t", "\n"}

LowerChar(c) ==
  IF \E i \in 1..26 : UpperAZ[i] = c
  THEN LowerAZ[CHOOSE i \in 1..26 : UpperAZ[i] = c]
  ELSE c

\* str.lower()
Lower(s) == [i \in 1..Len(s) |-> LowerChar(s[i])]

RECURSIVE LStrip(_)
LStrip(s) ==
  IF Len(s) = 0 THEN s
  ELSE IF IsSpace(s[1]) THEN LStrip(Tail(s)) ELSE s

RECURSIVE RStrip(_)
RStrip(s) ==
  IF Len(s) = 0 THEN s
  ELSE IF IsSpace(s[Len(s)]) THEN RStrip(SubSeq(s, 1, Len(s) - 1)) ELSE s

\* str.strip()
Strip(s) == RStrip(LStrip(s))

RECURSIVE SplitAcc(_, _, _)
SplitAcc(s, cur, acc) ==
  IF Len(s) = 0
  THEN (IF Len(cur) = 0 THEN acc ELSE Append(acc, cur))
  ELSE IF IsSpace(s[1])
       THEN SplitAcc(Tail(s), <<>>, IF Len(cur) = 0 THEN acc ELSE Append(acc, cur))
       ELSE SplitAcc(Tail(s), Append(cur, s[1]), acc)

\* str.split() with no argument: split on runs of whitespace
Split(s) == SplitAcc(s, <<>>, <<>>)

\* token in tokens
InTokens(tok, tokens) == \E i \in 1..Len(tokens) : tokens[i] = tok

\* str.startswith(prefix)
StartsWith(s, prefix) ==
  /\ Len(s) >= Len(prefix)
  /\ SubSeq(s, 1, Len(prefix)) = prefix

\* sub in s
Contains(s, sub) ==
  \E i \in 1..(Len(s) - Len(sub) + 1) : SubSeq(s, i, i + Len(sub) - 1) = sub

RECURSIVE SplitOnAcc(_, _, _, _)
SplitOnAcc(s, sep, cur, acc) ==
  IF Len(s) = 0 THEN Append(acc, cur)
  ELSE IF StartsWith(s, sep)
       THEN SplitOnAcc(SubSeq(s, Len(sep) + 1, Len(s)), sep, <<>>, Append(acc, cur))
       ELSE SplitOnAcc(Tail(s), sep, Append(cur, s[1]), acc)

\* str.split(sep): the parts between the non-overlapping occurrences of sep
SplitOn(s, sep) == SplitOnAcc(s, sep, <<>>, <<>>)

RECURSIVE DigitsVal(_, _)
DigitsVal(s, acc) ==
  IF Len(s) = 0 THEN acc
  ELSE IF s[1] = "_" THEN DigitsVal(Tail(s), acc)
       ELSE DigitsVal(Tail(s), 10 * acc + DigitVal(s[1]))

\* the digit part of an int literal: digits, single underscores between them
IsDigitRun(s) ==
  /\ Len(s) > 0
  /\ IsDigit(s[1])
  /\ IsDigit(s[Len(s)])
  /\ \A i \in 1..Len(s) : IsDigit(s[i]) \/ s[i] = "_"
  /\ \A i \in 1..(Len(s) - 1) : ~(s[i] = "_" /\ s[i + 1] = "_")

\* int(s): surrounding whitespace, optional sign, digits; ok = FALSE is ValueError
ParseInt(s) ==
  LET t == Strip(s)
      signed == Len(t) > 0 /\ t[1] \in {"+", "-"}
      body == IF signed THEN Tail(t) ELSE t
  IN IF IsDigitRun(body)
     THEN [ok |-> TRUE,
           val |-> IF signed /\ t[1] = "-" THEN 0 - DigitsVal(body, 0)
                   ELSE DigitsVal(body, 0)]
     ELSE [ok |-> FALSE, val |-> 0]

RECURSIVE NatToStr(_)
NatToStr(n) ==
  IF n < 10 THEN <<Digits[n + 1]>>
  ELSE NatToStr(n \div 10) \o <<Digits[(n % 10) + 1]>>

\* str(n) / f"{n}" for an int
IntToStr(n) == IF n < 0 THEN <<"-">> \o NatToStr(0 - n) ELSE NatToStr(n)

RECURSIVE ZeroPad(_, _)
ZeroPad(s, width) == IF Len(s) >= width THEN s ELSE ZeroPad(<<"0">> \o s, width)

\* strftime("%Y-%m")
StrfYm(year, month) ==
  ZeroPad(NatToStr(year), 4) \o <<"-">> \o ZeroPad(NatToStr(month), 2)

Min(a, b) == IF a < b THEN a ELSE b

Max(a, b) == IF a > b THEN a ELSE b

(***************************************************************************)
(* String literals of the source and the strings fed to the model.         *)
(***************************************************************************)
P_empty == <<>>

P_blank == <<" "," ">>

P_ytd == <<"y","t","d">>

P_YTD == <<" ","Y","T","D"," ">>

P_year_to_date == <<"y","e","a","r"," ","t","o"," ","d","a","t","e">>

P_mtd == <<"m","t","d">>

P_month_to_date == <<"M","o","n","t","h"," ","t","o"," ","d","a","t","e">>

P_qtd == <<"q","t","d">>

P_quarter_to_date == <<"q","u","a","r","t","e","r"," ","t","o"," ","d","a","t","e">>

P_last == <<"l","a","s","t">>

P_last_2 == <<"l","a","s","t"," ","2">>

P_last_2_months == <<"l","a","s","t"," ","2"," ","m","o","n","t","h","s">>

P_last_2_quarters == <<"l","a","s","t"," ","2"," ","q","u","a","r","t","e","r","s">>

P_Last_quarter == <<"L","a","s","t"," ","q","u","a","r","t","e","r">>

P_last_1_year == <<"l","a","s","t"," ","1"," ","y","e","a","r">>

P_last_0_quarters == <<"l","a","s","t"," ","0"," ","q","u","a","r","t","e","r","s">>

P_last_0 == <<"l","a","s","t"," ","0">>

P_last_neg2_quarters == <<"l","a","s","t"," ","-","2"," ","q","u","a","r","t","e","r","s">>

P_2024_Q1 == <<"2","0","2","4","-","Q","1">>

P_2024_q2 == <<"2","0","2","4","-","q","2">>

P_2023_Q4 == <<"2","0","2","3","-","Q","4">>

P_2024_Q5 == <<"2","0","2","4","-","Q","5">>

P_1999_Q1 == <<"1","9","9","9","-","Q","1">>

P_2024_03 == <<"2","0","2","4","-","0","3">>

P_2024_03_15 == <<"2","0","2","4","-","0","3","-","1","5">>

P_2023_12 == <<"2","0","2","3","-","1","2">>

P_foo == <<"f","o","o">>

P_nat == <<"n","a","t">>

P_20ab_q1 == <<"2","0","a","b","-","q","1">>

P_2024_qx == <<"2","0","2","4","-","q","x">>

P_2024_q1_q2 == <<"2","0","2","4","-","q","1","-","q","2">>

Periods ==
  {None, P_empty, P_blank, P_ytd, P_YTD,
   P_year_to_date, P_mtd, P_month_to_date, P_qtd,
   P_quarter_to_date, P_last, P_last_2, P_last_2_months,
   P_last_2_quarters, P_Last_quarter, P_last_1_year, P_last_0_quarters,
   P_last_0, P_last_neg2_quarters, P_2024_Q1, P_2024_q2,
   P_2023_Q4, P_2024_Q5, P_1999_Q1, P_2024_03,
   P_2024_03_15, P_2023_12, P_foo, P_nat,
   P_20ab_q1, P_2024_qx, P_2024_q1_q2}
W_last == <<"l","a","s","t">>

W_quarter == <<"q","u","a","r","t","e","r">>

W_quarters == <<"q","u","a","r","t","e","r","s">>

W_year == <<"y","e","a","r">>

W_years == <<"y","e","a","r","s">>

S_ytd == <<"y","t","d">>

S_year_to_date == <<"y","e","a","r"," ","t","o"," ","d","a","t","e">>

S_mtd == <<"m","t","d">>

S_month_to_date == <<"m","o","n","t","h"," ","t","o"," ","d","a","t","e">>

S_qtd == <<"q","t","d">>

S_quarter_to_date == <<"q","u","a","r","t","e","r"," ","t","o"," ","d","a","t","e">>

S_20 == <<"2","0">>

S_dash_q == <<"-","q">>

S_nat == <<"n","a","t">>

S_nan == <<"n","a","n">>

S_prophet == <<"p","r","o","p","h","e","t">>

S_arima == <<"a","r","i","m","a">>

S_prophet_unavailable == <<"p","r","o","p","h","e","t","_","u","n","a","v","a","i","l","a","b","l","e">>

S_no_history == <<"n","o"," ","h","i","s","t","o","r","y"," ","a","v","a","i","l","a","b","l","e">>

S_last_ == <<"l","a","s","t"," ">>

S_periods == <<" ","p","e","r","i","o","d","(","s",")">>

S_YTD == <<" ","Y","T","D">>

S_MTD == <<" ","M","T","D">>

S_QTD == <<" ","Q","T","D">>

S_dash_Q == <<"-","Q">>

K_rev == <<"r","e","v">>

K_REV == <<"R","E","V">>

K_Rev == <<"R","e","v">>

K_churn == <<"c","h","u","r","n">>

K_nps == <<"n","p","s">>

G_EU == <<"E","U">>

G_Eu == <<"E","u">>

M_Prophet == <<"P","r","o","p","h","e","t">>

M_ARIMA == <<"A","R","I","M","A">>

M_ets == <<"e","t","s">>

H_4 == <<"4">>

H_2_5 == <<"2",".","5">>

H_abc == <<"a","b","c">>

H_inf == <<"i","n","f">>

H_neg1 == <<"-","1">>


(***************************************************************************)
(* pandas primitives used by the source.  A monthly series (the ds/y       *)
(* DataFrame) is a sequence of rows [ds |-> [year, month], y |-> [sum, n]];*)
(* y is the mean sum/n of the readings of the month, n = 0 being NaN.      *)
(***************************************************************************)
\* DataFrame.tail(n)
tail(ts, n) ==
  IF n = 0 THEN <<>>
  ELSE IF n > 0 THEN SubSeq(ts, Max(1, Len(ts) - n + 1), Len(ts))
  ELSE SubSeq(ts, (0 - n) + 1, Len(ts))

\* month number on the calendar line
AbsMonth(d) == d.year * 12 + (d.month - 1)

\* ts["ds"].max() of a non-empty series
latest_ds(ts) ==
  LET i == CHOOSE i \in 1..Len(ts) :
             \A j \in 1..Len(ts) : AbsMonth(ts[j].ds) <= AbsMonth(ts[i].ds)
  IN ts[i].ds

\* Series.between(lo, hi): inclusive on both ends
between(x, lo, hi) == lo <= x /\ x <= hi

IsLeap(y) == (y % 4 = 0 /\ y % 100 # 0) \/ y % 400 = 0

DaysIn(y, m) ==
  IF m = 2 THEN (IF IsLeap(y) THEN 29 ELSE 28)
  ELSE IF m \in {4, 6, 9, 11} THEN 30 ELSE 31

AllDigits(s) == Len(s) > 0 /\ \A i \in 1..Len(s) : IsDigit(s[i])

\* pd.to_datetime(s, errors="raise") on the string forms the model feeds it:
\* "" and the NaT words give NaT; YYYY-MM and YYYY-MM-DD give that date;
\* YYYY-qN and YYYYqN (N in 1..4) give the first month of the quarter;
\* every other string of the model raises.
to_datetime(s) ==
  LET parts == SplitOn(s, <<"-">>)
      raise == [kind |-> "raise", year |-> 0, month |-> 0]
      isQ(p) == Len(p) = 2 /\ p[1] = "q" /\ p[2] \in {"1", "2", "3", "4"}
  IN IF Len(s) = 0 \/ s \in {S_nat, S_nan}
       THEN [kind |-> "nat", year |-> 0, month |-> 0]
     ELSE IF Len(s) = 6 /\ AllDigits(SubSeq(s, 1, 4)) /\ isQ(SubSeq(s, 5, 6))
       THEN [kind |-> "ts", year |-> DigitsVal(SubSeq(s, 1, 4), 0),
             month |-> 3 * DigitVal(s[6]) - 2]
     ELSE IF Len(parts) = 2 /\ Len(parts[1]) = 4 /\ AllDigits(parts[1]) /\ isQ(parts[2])
       THEN [kind |-> "ts", year |-> DigitsVal(parts[1], 0),
             month |-> 3 * DigitVal(parts[2][2]) - 2]
     ELSE IF /\ Len(parts) \in {2, 3}
             /\ Len(parts[1]) = 4 /\ AllDigits(parts[1])
             /\ Len(parts[2]) = 2 /\ AllDigits(parts[2])
             /\ between(DigitsVal(parts[2], 0), 1, 12)
             /\ Len(parts) = 3 =>
                  /\ Len(parts[3]) = 2 /\ AllDigits(parts[3])
                  /\ between(DigitsVal(parts[3], 0), 1,
                             DaysIn(DigitsVal(parts[1], 0), DigitsVal(parts[2], 0)))
       THEN [kind |-> "ts", year |-> DigitsVal(parts[1], 0),
             month |-> DigitsVal(parts[2], 0)]
     ELSE raise

(***************************************************************************)
(* load_data / slice_series.  The CSV is a sequence of rows                *)
(* [date |-> [year, month, day], kpi, segment, value].                     *)
(***************************************************************************)
load_data(file) ==
  [i \in 1..Len(file) |->
     [date |-> file[i].date, kpi |-> Lower(file[i].kpi),
      segment |-> Lower(file[i].segment), value |-> file[i].value]]

RECURSIVE SumValues(_, _)
SumValues(df, idx) ==
  IF idx = {} THEN 0
  ELSE LET i == CHOOSE i \in idx : TRUE
       IN df[i].value + SumValues(df, idx \ {i})

\* the sort by date does not change the monthly means and is not modelled
slice_series(df, kpi, segment) ==
  LET rows == {i \in 1..Len(df) :
                 df[i].kpi = Lower(kpi) /\ df[i].segment = Lower(segment)}
      lo == CHOOSE a \in {AbsMonth(df[i].date) : i \in rows} :
              \A i \in rows : a <= AbsMonth(df[i].date)
      hi == CHOOSE a \in {AbsMonth(df[i].date) : i \in rows} :
              \A i \in rows : a >= AbsMonth(df[i].date)
      bin(a) == {i \in rows : AbsMonth(df[i].date) = a}
  IN IF rows = {} THEN <<>>
     ELSE [k \in 1..(hi - lo + 1) |->
             LET a == lo + k - 1
             IN [ds |-> [year |-> a \div 12, month |-> (a % 12) + 1],
                 y |-> [sum |-> SumValues(df, bin(a)), n |-> Cardinality(bin(a))]]]

(***************************************************************************)
(* parse_last_period                                                       *)
(***************************************************************************)
RECURSIVE find_number(_)
find_number(words) ==
  IF Len(words) = 0 THEN [none |-> TRUE, val |-> 0]
  ELSE IF ParseInt(words[1]).ok THEN [none |-> FALSE, val |-> ParseInt(words[1]).val]
  ELSE find_number(Tail(words))

unit_months_mut(tokens, months) ==
  IF InTokens(W_quarter, tokens) \/ InTokens(W_quarters, tokens) THEN months * 4
  ELSE IF InTokens(W_year, tokens) \/ InTokens(W_years, tokens) THEN months * 12
  ELSE months

\* lines 65-68: scale the count by the unit named in the phrase
unit_months(tokens, months) ==
  IF InTokens(W_quarter, tokens) \/ InTokens(W_quarters, tokens) THEN months * 3
  ELSE IF InTokens(W_year, tokens) \/ InTokens(W_years, tokens) THEN months * 12
  ELSE months

\* returns [none |-> TRUE] for Python None, else the number of months
parse_last_period(period) ==
  LET tokens == Split(Lower(period))
      found == find_number(tokens)
      \* find_number(tokens) or 1: None and 0 are both falsy
      months == IF found.none \/ found.val = 0 THEN 1 ELSE found.val
  IN IF ~InTokens(W_last, tokens) THEN [none |-> TRUE, val |-> 0]
     ELSE [none |-> FALSE, val |-> Max(unit_months(tokens, months), 1)]

(***************************************************************************)
(* filter_period.  The result is [raised, subset, label]; raised = TRUE    *)
(* is an exception leaving the function.                                   *)
(***************************************************************************)
Ret(subset, label) == [raised |-> FALSE, subset |-> subset, label |-> label]

Raise == [raised |-> TRUE, subset |-> <<>>, label |-> <<>>]

DefaultWindow == 3

default_window_mut(ts) ==
  Ret(tail(ts, 2), S_last_ \o IntToStr(Min(Len(ts), 2)) \o S_periods)

\* ts.tail(3), f"last {min(len(ts), 3)} period(s)"
default_window(ts) ==
  Ret(tail(ts, DefaultWindow),
      S_last_ \o IntToStr(Min(Len(ts), DefaultWindow)) \o S_periods)

ytd_subset(ts) ==
  LET latest == latest_ds(ts)
  IN SelectSeq(ts, LAMBDA r : r.ds.year = latest.year)

mtd_subset(ts) ==
  LET latest == latest_ds(ts)
  IN SelectSeq(ts, LAMBDA r : r.ds.year = latest.year /\ r.ds.month = latest.month)

quarter_of(month) == (month - 1) \div 3 + 1

quarter_start_month_mut(quarter) == quarter * 3 + 1

quarter_start_month(quarter) == (quarter - 1) * 3 + 1

qtd_subset(ts) ==
  LET latest == latest_ds(ts)
      start_month == quarter_start_month(quarter_of(latest.month))
  IN SelectSeq(ts, LAMBDA r : /\ r.ds.year = latest.year
                              /\ between(r.ds.month, start_month, latest.month))

quarter_literal_mut(ts, normalized) ==
  LET parts == SplitOn(normalized, S_dash_q)
      year == ParseInt(parts[1])
      quarter == ParseInt(Strip(parts[2]))
      start_month == quarter_start_month(quarter.val)
      end_month == start_month + 2
      subset == SelectSeq(ts, LAMBDA r : /\ r.ds.year = year.val
                                         /\ between(r.ds.month, start_month, end_month))
  IN IF Len(parts) # 2 THEN Raise
     ELSE IF ~year.ok THEN Raise
     ELSE IF ~quarter.ok THEN Raise
     ELSE Ret(subset, IntToStr(year.val) \o S_dash_Q \o IntToStr(quarter.val))

\* lines 112-122: the YYYY-Qn branch
quarter_literal(ts, normalized) ==
  LET parts == SplitOn(normalized, S_dash_q)
      year == ParseInt(parts[1])
      quarter == ParseInt(Strip(parts[2]))
      start_month == quarter_start_month(quarter.val)
      end_month == start_month + 2
      subset == SelectSeq(ts, LAMBDA r : /\ r.ds.year = year.val
                                         /\ between(r.ds.month, start_month, end_month))
  IN IF Len(parts) # 2 THEN Raise           \* unpacking into (year, quarter)
     ELSE IF ~year.ok THEN Raise            \* int(year)
     ELSE IF ~quarter.ok THEN Raise         \* int(quarter)
     ELSE IF Len(subset) = 0 THEN default_window(ts)
     ELSE Ret(subset, IntToStr(year.val) \o S_dash_Q \o IntToStr(quarter.val))

\* lines 124-134: the calendar-date branch; NaT compares unequal to every row
date_literal(ts, normalized) ==
  LET parsed == to_datetime(normalized)
      subset == SelectSeq(ts, LAMBDA r : /\ parsed.kind = "ts"
                                         /\ r.ds.year = parsed.year
                                         /\ r.ds.month = parsed.month)
  IN IF parsed.kind = "raise" THEN default_window(ts)
     ELSE IF Len(subset) = 0 THEN default_window(ts)
     ELSE Ret(subset, StrfYm(parsed.year, parsed.month))

filter_period(ts, period) ==
  IF Len(ts) = 0 THEN Ret(ts, S_no_history)
  ELSE IF period = None \/ Len(period) = 0 THEN default_window(ts)
  ELSE
    LET normalized == Lower(Strip(period))
        latest == latest_ds(ts)
        last_months == parse_last_period(normalized)
    IN IF normalized \in {S_ytd, S_year_to_date} /\ Len(ytd_subset(ts)) > 0
         THEN Ret(ytd_subset(ts), IntToStr(latest.year) \o S_YTD)
       ELSE IF normalized \in {S_mtd, S_month_to_date} /\ Len(mtd_subset(ts)) > 0
         THEN Ret(mtd_subset(ts), StrfYm(latest.year, latest.month) \o S_MTD)
       ELSE IF normalized \in {S_qtd, S_quarter_to_date} /\ Len(qtd_subset(ts)) > 0
         THEN Ret(qtd_subset(ts),
                  IntToStr(latest.year) \o S_dash_Q
                    \o IntToStr(quarter_of(latest.month)) \o S_QTD)
       ELSE IF ~last_months.none /\ last_months.val # 0
         THEN LET subset == tail(ts, last_months.val)
              IN Ret(subset, S_last_ \o IntToStr(Len(subset)) \o S_periods)
       ELSE IF StartsWith(normalized, S_20) /\ Contains(normalized, S_dash_q)
         THEN quarter_literal(ts, normalized)
       ELSE date_literal(ts, normalized)

(***************************************************************************)
(* ensure_positive_int.  A slot value is [t |-> "none"], a number          *)
(* [t |-> "num", num, den] (the rational num/den) or a string              *)
(* [t |-> "str", s].                                                       *)
(***************************************************************************)
RECURSIVE Pow10(_)
Pow10(n) == IF n = 0 THEN 1 ELSE 10 * Pow10(n - 1)

\* float(s) for the literals the model uses: [sign] digits [. digits], inf, nan
ParseFloat(s) ==
  LET t == Strip(s)
      signed == Len(t) > 0 /\ t[1] \in {"+", "-"}
      sgn == IF signed /\ t[1] = "-" THEN 0 - 1 ELSE 1
      body == IF signed THEN Tail(t) ELSE t
      parts == SplitOn(body, <<".">>)
      bad == [kind |-> "raise", num |-> 0, den |-> 1]
  IN IF Lower(body) \in {<<"i","n","f">>, <<"n","a","n">>}
       THEN [kind |-> "nonfinite", num |-> 0, den |-> 1]
     ELSE IF Len(parts) = 1 /\ AllDigits(parts[1])
       THEN [kind |-> "ok", num |-> sgn * DigitsVal(parts[1], 0), den |-> 1]
     ELSE IF Len(parts) = 2 /\ AllDigits(parts[1]) /\ AllDigits(parts[2])
       THEN [kind |-> "ok",
             num |-> sgn * (DigitsVal(parts[1], 0) * Pow10(Len(parts[2]))
                            + DigitsVal(parts[2], 0)),
             den |-> Pow10(Len(parts[2]))]
     ELSE bad

\* math.ceil of the rational num/den, den > 0
Ceil(num, den) == 0 - ((0 - num) \div den)

ensure_positive_int(value, default) ==
  IF value.t = "none" THEN default                      \* float(None): TypeError
  ELSE IF value.t = "num" THEN Max(Ceil(value.num, value.den), 1)
  ELSE LET f == ParseFloat(value.s)
       IN IF f.kind = "ok" THEN Max(Ceil(f.num, f.den), 1)
          ELSE default                                  \* ValueError / OverflowError

(***************************************************************************)
(* The forecasting backends are external: only the call and the text it    *)
(* returns are modelled.                                                   *)
(***************************************************************************)
run_prophet_forecast(ts, horizon, kpi, segment) ==
  [kind |-> "forecast", backend |-> "Prophet", kpi |-> kpi, segment |-> segment,
   horizon |-> horizon]

run_arima_forecast(ts, horizon, kpi, segment) ==
  [kind |-> "forecast", backend |-> "ARIMA", kpi |-> kpi, segment |-> segment,
   horizon |-> horizon]

(***************************************************************************)
(* The data store: one history per state, chosen at start.                 *)
(***************************************************************************)
Row(a, day, kpi, segment, value) ==
  [date |-> [year |-> a \div 12, month |-> (a % 12) + 1, day |-> day],
   kpi |-> kpi, segment |-> segment, value |-> value]

\* first month of each history: 1999-01, 2023-11, 2024-01, 2024-04
Starts == {1999 * 12, 2023 * 12 + 10, 2024 * 12, 2024 * 12 + 3}

\* n monthly readings of Rev/EU from month start on (the second month left
\* out when gapped), two readings in the first month, and one Churn reading
History(start, n, gapped) ==
  LET months == SelectSeq([i \in 1..n |-> i - 1], LAMBDA i : ~(gapped /\ i = 1))
  IN <<Row(2024 * 12 + 5, 1, K_churn, G_EU, 7)>>
     \o [k \in 1..Len(months) |->
           Row(start + months[k], 15, K_Rev, G_EU, 100 + 10 * months[k])]
     \o (IF n > 0 THEN <<Row(start, 20, K_Rev, G_EU, 103)>> ELSE <<>>)

Histories ==
  {History(s, n, FALSE) : s \in Starts, n \in 0..MaxLen}
    \cup {History(s, n, TRUE) : s \in Starts, n \in 3..MaxLen}

KpiSlots == {None, K_REV, K_churn, K_nps}

SegmentSlots == {None, G_Eu}

ModelSlots == {None, S_prophet, M_Prophet, S_arima, M_ARIMA, M_ets}

HorizonSlots ==
  {[t |-> "none"], [t |-> "num", num |-> 2, den |-> 1],
   [t |-> "num", num |-> 5, den |-> 2], [t |-> "num", num |-> 0, den |-> 1],
   [t |-> "str", s |-> H_4], [t |-> "str", s |-> H_2_5],
   [t |-> "str", s |-> H_abc], [t |-> "str", s |-> H_inf],
   [t |-> "str", s |-> H_neg1]}

(***************************************************************************)
(* State.                                                                  *)
(***************************************************************************)
VARIABLES
  file,         \* data/kpi_history.csv
  USE_PROPHET,  \* module flag, line 14-18
  USE_ARIMA,    \* module flag, line 20-24
  tracker,      \* the slots of the dialogue layer
  pc,           \* "idle", "query", "forecast", "query_done", "forecast_done", "filter_done"
  dispatcher,   \* messages uttered by the running handler
  events,       \* the event list the handler returned
  calls,        \* backend functions invoked by the handler
  crashed,      \* an exception left the handler
  locals,       \* the handler's ts and model_slot, once computed
  fp            \* the last call of filter_period and its result

vars == <<file, USE_PROPHET, USE_ARIMA, tracker, pc, dispatcher, events, calls,
          crashed, locals, fp>>

NoSlots ==
  [kpi |-> None, segment |-> None, period |-> None,
   horizon |-> [t |-> "none"], model |-> None]

NoLocals == [sliced |-> FALSE, ts |-> <<>>, model_slot |-> <<>>, horizon |-> 0]

NoCall ==
  [called |-> FALSE, ts |-> <<>>, period |-> None, out |-> Ret(<<>>, <<>>)]

Init ==
  /\ file \in Histories
  /\ USE_PROPHET \in BOOLEAN
  /\ USE_ARIMA \in BOOLEAN
  /\ tracker = NoSlots
  /\ pc = "idle"
  /\ dispatcher = <<>>
  /\ events = <<>>
  /\ calls = <<>>
  /\ crashed = FALSE
  /\ locals = NoLocals
  /\ fp = NoCall

\* tracker.get_slot(name) or ""
OrEmpty(v) == IF v = None THEN <<>> ELSE v

\* tracker.get_slot("model") or "prophet"
OrProphet(v) == IF v = None \/ Len(v) = 0 THEN S_prophet ELSE v

\* the dialogue layer fills the slots of a KPI query
QueryRequest ==
  /\ pc = "idle"
  /\ \E k \in KpiSlots, g \in SegmentSlots, p \in Periods :
       tracker' = [NoSlots EXCEPT !.kpi = k, !.segment = g, !.period = p]
  /\ pc' = "query"
  /\ UNCHANGED <<file, USE_PROPHET, USE_ARIMA, dispatcher, events, calls,
                 crashed, locals, fp>>

\* the dialogue layer fills the slots of a forecast request
ForecastRequest ==
  /\ pc = "idle"
  /\ \E k \in KpiSlots, g \in SegmentSlots, h \in HorizonSlots, m \in ModelSlots :
       tracker' = [NoSlots EXCEPT !.kpi = k, !.segment = g, !.horizon = h,
                                  !.model = m]
  /\ pc' = "forecast"
  /\ UNCHANGED <<file, USE_PROPHET, USE_ARIMA, dispatcher, events, calls,
                 crashed, locals, fp>>

\* ActionQueryKPI.run
ActionQueryKPI_run ==
  /\ pc = "query"
  /\ pc' = "query_done"
  /\ LET kpi == Lower(OrEmpty(tracker.kpi))
         segment == Lower(OrEmpty(tracker.segment))
         period == tracker.period
         ts == slice_series(load_data(file), kpi, segment)
         out == filter_period(ts, period)
     IN IF Len(kpi) = 0 \/ Len(segment) = 0
          THEN /\ dispatcher' = Append(dispatcher, [kind |-> "need_kpi_segment"])
               /\ UNCHANGED <<crashed, locals, fp>>
        ELSE IF Len(ts) = 0
          THEN /\ dispatcher' = Append(dispatcher,
                    [kind |-> "no_history", kpi |-> kpi, segment |-> segment])
               /\ locals' = [NoLocals EXCEPT !.sliced = TRUE, !.ts = ts]
               /\ UNCHANGED <<crashed, fp>>
        ELSE /\ locals' = [NoLocals EXCEPT !.sliced = TRUE, !.ts = ts]
             /\ fp' = [called |-> TRUE, ts |-> ts, period |-> period, out |-> out]
             /\ IF out.raised
                  THEN /\ crashed' = TRUE
                       /\ UNCHANGED dispatcher
                ELSE IF Len(out.subset) = 0
                  THEN /\ dispatcher' = Append(dispatcher,
                            [kind |-> "no_data_for_period", latest |-> tail(ts, 1)])
                       /\ UNCHANGED crashed
                ELSE /\ dispatcher' = Append(dispatcher,
                          [kind |-> "kpi_values", kpi |-> kpi, segment |-> segment,
                           label |-> out.label, rows |-> out.subset])
                     /\ UNCHANGED crashed
  /\ events' = <<>>
  /\ UNCHANGED <<file, USE_PROPHET, USE_ARIMA, tracker, calls>>

MinHistory == 6

too_short_mut(ts) == Len(ts) < 5

\* line 205: len(ts) < 6
too_short(ts) == Len(ts) < MinHistory

model_signal_mut(model_slot) ==
  IF model_slot # S_prophet THEN S_prophet_unavailable ELSE S_arima

\* line 217: the value of the SlotSet("model", ...) event
model_signal(model_slot) ==
  IF model_slot # S_prophet THEN S_arima ELSE S_prophet_unavailable

\* ActionForecastKPI.run
ActionForecastKPI_run ==
  /\ pc = "forecast"
  /\ pc' = "forecast_done"
  /\ LET kpi == Lower(OrEmpty(tracker.kpi))
         segment == Lower(OrEmpty(tracker.segment))
         model_slot == Lower(OrProphet(tracker.model))
         horizon == ensure_positive_int(tracker.horizon, 3)
         ts == slice_series(load_data(file), kpi, segment)
         seen == [sliced |-> TRUE, ts |-> ts, model_slot |-> model_slot,
                  horizon |-> horizon]
     IN IF Len(kpi) = 0 \/ Len(segment) = 0
          THEN /\ dispatcher' = Append(dispatcher, [kind |-> "need_kpi_segment"])
               /\ events' = <<>>
               /\ UNCHANGED <<calls, locals>>
        ELSE IF too_short(ts)
          THEN /\ dispatcher' = Append(dispatcher, [kind |-> "insufficient_history"])
               /\ events' = <<>>
               /\ locals' = seen
               /\ UNCHANGED calls
        ELSE IF model_slot = S_prophet /\ USE_PROPHET
          THEN /\ calls' = Append(calls, "run_prophet_forecast")
               /\ dispatcher' = Append(dispatcher,
                                       run_prophet_forecast(ts, horizon, kpi, segment))
               /\ events' = <<>>
               /\ locals' = seen
        ELSE IF USE_ARIMA
          THEN /\ calls' = Append(calls, "run_arima_forecast")
               /\ dispatcher' = Append(dispatcher,
                                       run_arima_forecast(ts, horizon, kpi, segment))
               /\ events' = <<[event |-> "slot", name |-> "model",
                               value |-> model_signal(model_slot)]>>
               /\ locals' = seen
        ELSE /\ dispatcher' = Append(dispatcher, [kind |-> "no_backend"])
             /\ events' = <<>>
             /\ locals' = seen
             /\ UNCHANGED calls
  /\ UNCHANGED <<file, USE_PROPHET, USE_ARIMA, tracker, crashed, fp>>

Next ==
  \/ QueryRequest
  \/ ForecastRequest
  \/ ActionQueryKPI_run
  \/ ActionForecastKPI_run

Spec == Init /\ [][Next]_vars

(***************************************************************************)
(* filter_period on its own: every series the slicer can produce,          *)
(* the empty one included, with every period expression.                   *)
(***************************************************************************)
FilterPeriodCall ==
  /\ pc = "idle"
  /\ pc' = "filter_done"
  /\ \E k \in {K_rev, K_churn, K_nps}, p \in Periods :
       LET ts == slice_series(load_data(file), k, G_EU)
       IN fp' = [called |-> TRUE, ts |-> ts, period |-> p,
                 out |-> filter_period(ts, p)]
  /\ UNCHANGED <<file, USE_PROPHET, USE_ARIMA, tracker, dispatcher, events,
                 calls, crashed, locals>>

NextFilter == FilterPeriodCall

SpecFilter == Init /\ [][NextFilter]_vars

(***************************************************************************)
(* Properties.                                                             *)
(***************************************************************************)
\* the last k rows of a series
LastRows(ts, k) == [i \in 1..k |-> ts[Len(ts) - k + i]]

\* decimal rendering of a count below 100
Dec(k) ==
  IF k < 10 THEN <<Digits[k + 1]>>
  ELSE <<Digits[(k \div 10) + 1], Digits[(k % 10) + 1]>>

\* the text "last K period(s)"
LastLabel(k) == <<"l","a","s","t"," ">> \o Dec(k) \o <<" ","p","e","r","i","o","d","(","s",")">>

\* the default window of a series: its last min(3, len) rows and their label
DefaultResult(ts) ==
  [raised |-> FALSE, subset |-> LastRows(ts, Min(3, Len(ts))),
   label |-> LastLabel(Min(3, Len(ts)))]

HasMessage(kind) == \E i \in 1..Len(dispatcher) : dispatcher[i].kind = kind

\* C1: filter_period never raises; every call returns a (subset, label) pair
C1_NeverRaises == fp.called => ~fp.out.raised

\* expressions that match no recognised pattern and are not calendar dates
Unrecognised == {P_foo, P_blank, P_nat, P_20ab_q1, P_2024_qx, P_2024_q1_q2}

\* C2: an unrecognised, unparseable expression gives the result of
\* filter_period(series, None): same subset, same label
C2_UnrecognisedAsNone ==
  (fp.called /\ fp.period \in Unrecognised)
    => fp.out = filter_period(fp.ts, None)

\* C3: with at least 6 points, "no backend" is reported only when neither
\* backend is available, and a forecast is produced whenever one is
C3_NoBackendOnlyWhenNeither ==
  (pc = "forecast_done" /\ locals.sliced /\ Len(locals.ts) >= 6)
    => /\ HasMessage("no_backend") => (~USE_PROPHET /\ ~USE_ARIMA)
       /\ (USE_PROPHET \/ USE_ARIMA) => HasMessage("forecast")

SlotSetModel(v) == <<[event |-> "slot", name |-> "model", value |-> v] >>

\* C4: with only ARIMA available and at least 6 points, preference "prophet"
\* (or an absent model slot) sets the signal "prophet_unavailable", preference
\* "arima" sets "arima"; a request served by Prophet sets no signal
C4_ModelSignal ==
  (pc = "forecast_done" /\ locals.sliced /\ Len(locals.ts) >= 6)
    => /\ (~USE_PROPHET /\ USE_ARIMA /\ tracker.model \in {None, S_prophet})
            => events = SlotSetModel(<<"p","r","o","p","h","e","t","_","u","n","a","v","a","i","l","a","b","l","e">>)
       /\ (~USE_PROPHET /\ USE_ARIMA /\ tracker.model = S_arima)
            => events = SlotSetModel(<<"a","r","i","m","a">>)
       /\ calls = <<"run_prophet_forecast">> => events = <<>>

C4_Witness ==
  /\ pc = "forecast_done" /\ Len(locals.ts) >= 6
  /\ ~USE_PROPHET /\ USE_ARIMA /\ tracker.model = None
  /\ calls = <<"run_arima_forecast">>
  /\ events = SlotSetModel(<<"p","r","o","p","h","e","t","_","u","n","a","v","a","i","l","a","b","l","e">>)

\* C5: a series shorter than 6 points ends the forecast handler with the
\* insufficient-history message and no backend call, whatever the horizon,
\* the model preference and the availability flags
C5_InsufficientHistory ==
  (pc = "forecast_done" /\ locals.sliced /\ Len(locals.ts) < 6)
    => /\ dispatcher = <<[kind |-> "insufficient_history"]>>
       /\ calls = <<>>
       /\ events = <<>>

C5_Witness ==
  /\ pc = "forecast_done" /\ locals.sliced /\ Len(locals.ts) = 5
  /\ USE_PROPHET /\ USE_ARIMA
  /\ HasMessage("insufficient_history")

\* well-formed YYYY-Qn expressions: the year, the quarter and the label
QuarterCases ==
  {[p |-> P_2024_Q1, year |-> 2024, n |-> 1, label |-> <<"2","0","2","4","-","Q","1">>],
   [p |-> P_2024_q2, year |-> 2024, n |-> 2, label |-> <<"2","0","2","4","-","Q","2">>],
   [p |-> P_2023_Q4, year |-> 2023, n |-> 4, label |-> <<"2","0","2","3","-","Q","4">>],
   [p |-> P_2024_Q5, year |-> 2024, n |-> 5, label |-> <<"2","0","2","4","-","Q","5">>],
   [p |-> P_1999_Q1, year |-> 1999, n |-> 1, label |-> <<"1","9","9","9","-","Q","1">>]}

\* the rows of year c.year whose month lies in [3n-2, 3n]
QuarterRows(ts, c) ==
  SelectSeq(ts, LAMBDA r : /\ r.ds.year = c.year
                           /\ r.ds.month >= 3 * c.n - 2
                           /\ r.ds.month <= 3 * c.n)

QuarterHolds(c) ==
  IF Len(QuarterRows(fp.ts, c)) > 0
  THEN fp.out = [raised |-> FALSE, subset |-> QuarterRows(fp.ts, c),
                 label |-> c.label]
  ELSE fp.out = DefaultResult(fp.ts)

\* C6 as stated: for every well-formed YYYY-Qn and every series, the rows of
\* that quarter with label "YYYY-Qn", or the default window when none matches
C6_QuarterLiteral_Original ==
  \A c \in QuarterCases : (fp.called /\ fp.period = c.p) => QuarterHolds(c)

\* C6 (amended): for a non-empty series and a well-formed YYYY-Qn whose year
\* begins with "20", the rows of that quarter with label "YYYY-Qn", or the
\* default window with label "last K period(s)" when no row matches
C6_QuarterLiteral ==
  \A c \in QuarterCases :
    (fp.called /\ fp.period = c.p /\ Len(fp.ts) > 0 /\ c.year \div 100 = 20)
      => QuarterHolds(c)

C6_Witness ==
  /\ fp.called /\ fp.period = P_2024_Q1
  /\ Len(fp.ts) = 8
  /\ Len(fp.out.subset) = 3
  /\ fp.out.label = <<"2","0","2","4","-","Q","1">>

\* 'last N unit(s)' expressions: N (absent = TRUE when no number is given)
\* and the months per unit
LastCases ==
  {[p |-> P_last, absent |-> TRUE, N |-> 0, m |-> 1],
   [p |-> P_last_2, absent |-> FALSE, N |-> 2, m |-> 1],
   [p |-> P_last_2_months, absent |-> FALSE, N |-> 2, m |-> 1],
   [p |-> P_last_2_quarters, absent |-> FALSE, N |-> 2, m |-> 3],
   [p |-> P_Last_quarter, absent |-> TRUE, N |-> 0, m |-> 3],
   [p |-> P_last_1_year, absent |-> FALSE, N |-> 1, m |-> 12],
   [p |-> P_last_0_quarters, absent |-> FALSE, N |-> 0, m |-> 3],
   [p |-> P_last_0, absent |-> FALSE, N |-> 0, m |-> 1],
   [p |-> P_last_neg2_quarters, absent |-> FALSE, N |-> 0 - 2, m |-> 3]}

\* the result made of the trailing min(len, max(1, n * m)) rows
LastHolds(n, m) ==
  LET k == Min(Len(fp.ts), Max(1, n * m))
  IN fp.out = [raised |-> FALSE, subset |-> LastRows(fp.ts, k),
               label |-> LastLabel(k)]

\* C7 as stated: N defaults to 1 only when absent
C7_LastN_Original ==
  \A c \in LastCases :
    (fp.called /\ fp.period = c.p /\ Len(fp.ts) > 0)
      => LastHolds(IF c.absent THEN 1 ELSE c.N, c.m)

\* C7 (amended): for a non-empty series and 'last N unit(s)', the trailing
\* min(len, max(1, N*m)) rows, m = 3 for quarters, 12 for years, 1 otherwise,
\* N taken as 1 when absent or 0, labelled "last K period(s)" with K the
\* number of rows returned
C7_LastN ==
  \A c \in LastCases :
    (fp.called /\ fp.period = c.p /\ Len(fp.ts) > 0)
      => LastHolds(IF c.absent \/ c.N = 0 THEN 1 ELSE c.N, c.m)

C7_Witness ==
  /\ fp.called /\ fp.period = P_last_2_quarters
  /\ Len(fp.ts) = 8
  /\ Len(fp.out.subset) = 6
  /\ fp.out.label = <<"l","a","s","t"," ","6"," ","p","e","r","i","o","d","(","s",")">>

\* C8: without an expression a non-empty series resolves to its
\* min(3, len) trailing rows, in order, labelled "last K period(s)"
C8_DefaultWindow ==
  (fp.called /\ fp.period = None /\ Len(fp.ts) > 0)
    => fp.out = DefaultResult(fp.ts)

C8_Witness ==
  /\ fp.called /\ fp.period = None
  /\ Len(fp.ts) >= 4
  /\ Len(fp.out.subset) = 3
  /\ fp.out.label = <<"l","a","s","t"," ","3"," ","p","e","r","i","o","d","(","s",")">>

\* C9: every run of either handler utters exactly one message
C9_OneMessage ==
  pc \in {"query_done", "forecast_done"} => Len(dispatcher) = 1

\* C10: a call of filter_period on a non-empty series that returns gives a
\* non-empty subset, and the query handler never utters the
\* "no data for the requested period" message
C10_SubsetNonEmpty ==
  /\ (fp.called /\ Len(fp.ts) > 0 /\ ~fp.out.raised) => Len(fp.out.subset) > 0
  /\ ~HasMessage("no_data_for_period")

C10_Witness ==
  /\ pc = "query_done"
  /\ fp.called /\ fp.period = P_2024_Q5 /\ Len(fp.ts) > 0
  /\ ~fp.out.raised /\ Len(fp.out.subset) > 0
  /\ HasMessage("kpi_values")
====
